---- MODULE Spec2Model ----
(***************************************************************************)
(* A model of the PDF-folder utilities: the collision-safe move            *)
(* (safe_move, in its pathlib and its os.path variant), the keyword batch  *)
(* mover (pdf_optimised_mover.main), the interactive picker                *)
(* (pdf_you_pick_mover), and the gallery builder (pdf_builder).            *)
(*                                                                         *)
(* File names are sequences of one-character strings, so that lower(),     *)
(* endswith(), "in", stem/suffix splitting and the "{name} ({i}){ext}"     *)
(* formatting are computed as the code computes them.  A directory is a    *)
(* function from the names of its entries to the entries; names are        *)
(* compared exactly (a case-sensitive file system).  Symbolic links are    *)
(* not modelled: an entry is a regular file or a directory.                *)
(***************************************************************************)
EXTENDS Integers, Sequences, FiniteSets, TLC

VARIABLES
    staging,   \* SRC_DIR: name -> entry
    dest,      \* DEST_DIR (= ROOT of the builder): name -> entry, or NoDir
    pc,        \* position of the running entry point
    loc,       \* local variables of the running entry point
    out,       \* what the running entry point has printed, or the dialog the
               \* picker's last handler has shown (dialogs are modal: the next
               \* handler runs after the dialog is gone)
    last,      \* record of the most recent safe_move call or loop iteration
    faults     \* the number of shutil.move calls the environment has disturbed

vars == <<staging, dest, pc, loc, out, last, faults>>

(***************************************************************************)
(* Characters and strings                                                  *)
(***************************************************************************)

\* The characters used by the names of the model, in code-point order.
Alphabet ==
    << " ", "(", ")", ".", "0", "1", "2", "3", "4", "5", "6", "7", "8", "9",
       "A", "B", "D", "E", "F", "I", "M", "N", "O", "P", "R", "S", "T", "X",
       "_",
       "a", "b", "d", "e", "f", "h", "i", "l", "m", "n", "o", "p", "r", "s",
       "t", "x" >>

Upper == << "A", "B", "D", "E", "F", "I", "M", "N", "O", "P", "R", "S", "T", "X" >>

LowerOfUpper == << "a", "b", "d", "e", "f", "i", "m", "n", "o", "p", "r", "s", "t", "x" >>

\* ord(c), up to an order-preserving renumbering.
Ord(c) == CHOOSE i \in 1..Len(Alphabet) : Alphabet[i] = c

\* str.lower() on one character.
LowerChar(c) ==
    IF \E i \in 1..Len(Upper) : Upper[i] = c
    THEN LowerOfUpper[CHOOSE i \in 1..Len(Upper) : Upper[i] = c]
    ELSE c

\* str.lower()
Lower(s) == [i \in 1..Len(s) |-> LowerChar(s[i])]

\* s.endswith(suf)
EndsWith(s, suf) ==
    /\ Len(suf) <= Len(s)
    /\ SubSeq(s, Len(s) - Len(suf) + 1, Len(s)) = suf

\* sub in s
Contains(s, sub) ==
    \E i \in 1..(Len(s) - Len(sub) + 1) : SubSeq(s, i, i + Len(sub) - 1) = sub

\* Python's < on str: lexicographic by code point.
RECURSIVE StrLess(_, _)
StrLess(a, b) ==
    IF b = << >> THEN FALSE
    ELSE IF a = << >> THEN TRUE
    ELSE IF Ord(Head(a)) < Ord(Head(b)) THEN TRUE
    ELSE IF Ord(Head(a)) > Ord(Head(b)) THEN FALSE
    ELSE StrLess(Tail(a), Tail(b))

StrLeq(a, b) == a = b \/ StrLess(a, b)

Digits == << "0", "1", "2", "3", "4", "5", "6", "7", "8", "9" >>

\* str(i) for an integer i >= 0, as the f-string renders {i}.
RECURSIVE Str(_)
Str(i) == IF i < 10 THEN << Digits[i + 1] >> ELSE Str(i \div 10) \o << Digits[(i % 10) + 1] >>

\* s.rfind("."), 1-based; 0 when there is no dot.
RFindDot(s) ==
    IF \E i \in 1..Len(s) : s[i] = "."
    THEN CHOOSE i \in 1..Len(s) : s[i] = "." /\ \A j \in (i + 1)..Len(s) : s[j] # "."
    ELSE 0

\* pathlib.PurePath.suffix of a base name: the part from the last dot on, unless
\* that dot is the first or the last character.
PathSuffix(base) ==
    LET i == RFindDot(base)
    IN  IF 1 < i /\ i < Len(base) THEN SubSeq(base, i, Len(base)) ELSE << >>

\* pathlib.PurePath.stem of a base name.
PathStem(base) ==
    LET i == RFindDot(base)
    IN  IF 1 < i /\ i < Len(base) THEN SubSeq(base, 1, i - 1) ELSE base

\* os.path.splitext of a base name: split at the last dot, unless only dots
\* precede it.
SplitExt(base) ==
    LET i == RFindDot(base)
    IN  IF i > 0 /\ \E j \in 1..(i - 1) : base[j] # "."
        THEN << SubSeq(base, 1, i - 1), SubSeq(base, i, Len(base)) >>
        ELSE << base, << >> >>

\* (mutant) the counter is appended after the extension.
Numbered_after(name, i, ext) == name \o ext \o << " ", "(" >> \o Str(i) \o << ")" >>

\* f"{name} ({i}){ext}"
Numbered(name, i, ext) == name \o << " ", "(" >> \o Str(i) \o << ")" >> \o ext

(***************************************************************************)
(* Program constants and the names of the model                            *)
(***************************************************************************)

KEYWORD == << "_", "o", "p", "t", "i", "m", "i", "s", "e", "d" >>

DotPdf == << ".", "p", "d", "f" >>

IndexHtml == << "i", "n", "d", "e", "x", ".", "h", "t", "m", "l" >>

\* r_optimised.pdf, R_OPTIMISED.PDF, n_optimised.txt, s.pdf
RepPdf == << "r" >> \o KEYWORD \o DotPdf

RepPdfUpper ==
    << "R", "_", "O", "P", "T", "I", "M", "I", "S", "E", "D", ".", "P", "D", "F" >>

NotesTxt == << "n" >> \o KEYWORD \o << ".", "t", "x", "t" >>

SheetPdf == << "s" >> \o DotPdf

\* a.pdf, A.pdf, "a (1).pdf", "a (2).pdf", B.PDF, .pdf (a dot file with no
\* suffix), a
APdf == << "a" >> \o DotPdf

APdfUpper == << "A" >> \o DotPdf

A1Pdf == << "a", " ", "(", "1", ")", ".", "p", "d", "f" >>

A2Pdf == << "a", " ", "(", "2", ")", ".", "p", "d", "f" >>

BPdfUpper == << "B", ".", "P", "D", "F" >>

BarePdf == DotPdf

NoExt == << "a" >>

(***************************************************************************)
(* The file system                                                         *)
(***************************************************************************)

\* The directory that does not exist: a marker that is no directory state (no
\* entry is named "/").
NoDir == [n \in {<< "/" >>} |-> [kind |-> "missing"]]

EmptyDir == [n \in {} |-> 0]

\* A regular file: its content (which stands for its bytes, st_size among them)
\* and its modification time.
File(c, mtime) == [kind |-> "file", content |-> c, mtime |-> mtime]

SubDir == [kind |-> "dir"]

\* The file that the model's initial state puts under name n in directory `where`:
\* its content is unlike that of any other file.
InitialFile(where, n) ==
    File([origin |-> where, name |-> n, gen |-> 0,
          size |-> IF where = "staging" THEN 2048 ELSE 1536],
         IF where = "staging" THEN 2 ELSE 1)

\* Path.exists() / os.path.exists() of d / name.
Exists(d, name) == d # NoDir /\ name \in DOMAIN d

\* Path.is_file() / os.path.isfile() of d / name.
IsFile(d, name) == Exists(d, name) /\ d[name].kind = "file"

\* The directory d with entry e under name.
WithEntry(d, name, e) == [n \in DOMAIN d \cup {name} |-> IF n = name THEN e ELSE d[n]]

\* The directory d without the entry name.
WithoutEntry(d, name) == [n \in DOMAIN d \ {name} |-> d[n]]

\* The bound on the entries of a directory in an initial state.
MaxEntries == 2

\* The directories of at most MaxEntries entries with names among `names`, each
\* a regular file or, for the names in `dirNames`, possibly a subdirectory.
Dirs(where, names, dirNames) ==
    { d \in UNION { [S -> {"file", "dir"}] : S \in SUBSET names } :
        /\ Cardinality(DOMAIN d) <= MaxEntries
        /\ \A n \in DOMAIN d : d[n] = "dir" => n \in dirNames }

Populate(where, kinds) ==
    [n \in DOMAIN kinds |-> IF kinds[n] = "dir" THEN SubDir ELSE InitialFile(where, n)]

(***************************************************************************)
(* shutil.move and safe_move                                               *)
(***************************************************************************)

\* What the environment does to one shutil.move: nothing ("none"); refuse the
\* rename and the copy ("denied": PermissionError, nothing changed); or refuse
\* the rename and the final unlink of the source but allow the copy ("unlink":
\* shutil.move falls back to copy + unlink on any OSError of os.rename).
Faults == {"none", "denied", "unlink"}

\* The bound on the disturbed shutil.move calls of one behaviour.
MaxFaults == 1

\* The environment may choose `fault` for the next shutil.move.
MayFault(fault) == fault = "none" \/ faults < MaxFaults

\* The count of disturbed calls after a call under `fault`.
Faulted(fault) == IF fault = "none" THEN faults ELSE faults + 1

\* (mutant) a copy: the source is left in place.
ShutilMove_copy(st, de, f, target, fault) ==
    IF f \notin DOMAIN st \/ de = NoDir
    THEN [raised |-> "FileNotFoundError", staging |-> st, dest |-> de]
    ELSE [raised |-> "", staging |-> st, dest |-> WithEntry(de, target, st[f])]

\* (mutant) a missing destination directory is created instead of reported.
ShutilMove_mkdir(st, de, f, target, fault) ==
    IF f \notin DOMAIN st
    THEN [raised |-> "FileNotFoundError", staging |-> st, dest |-> de]
    ELSE [raised |-> "", staging |-> WithoutEntry(st, f),
          dest |-> WithEntry(IF de = NoDir THEN EmptyDir ELSE de, target, st[f])]

\* shutil.move(SRC_DIR / f, DEST_DIR / target) in file system (st, de).
\* raised is "" when the call returns.
ShutilMove(st, de, f, target, fault) ==
    IF f \notin DOMAIN st \/ de = NoDir
    THEN [raised |-> "FileNotFoundError", staging |-> st, dest |-> de]
    ELSE IF fault = "denied"
    THEN [raised |-> "PermissionError", staging |-> st, dest |-> de]
    ELSE IF Exists(de, target) /\ de[target].kind = "dir"
    THEN \* an existing directory: the source is moved inside it
         [raised |-> "", staging |-> WithoutEntry(st, f), dest |-> de]
    ELSE IF fault = "unlink"
    THEN [raised |-> "PermissionError", staging |-> st,
          dest |-> WithEntry(de, target, st[f])]
    ELSE \* os.rename: replaces a regular file at the target
         [raised |-> "", staging |-> WithoutEntry(st, f),
          dest |-> WithEntry(de, target, st[f])]

\* (mutant) no probing: the first candidate is used even when it exists.
FirstFree_overwrite(de, target, name, ext, i) == target

\* The while loop of safe_move: the first of target, "name (i)ext",
\* "name (i+1)ext", ... that does not exist in de.
RECURSIVE FirstFree(_, _, _, _, _)
FirstFree(de, target, name, ext, i) ==
    IF Exists(de, target)
    THEN FirstFree(de, Numbered(name, i, ext), name, ext, i + 1)
    ELSE target

\* The result of a safe_move call: what it raised ("" when it returned), the path
\* returned (the name within dest_dir), and the file system afterwards.
MoveResult(mv, target) ==
    [raised |-> mv.raised,
     ret |-> IF mv.raised = "" THEN << target >> ELSE << >>,
     staging |-> mv.staging, dest |-> mv.dest]

\* pdf_optimised_mover.safe_move(SRC_DIR / f, DEST_DIR)
safe_move(st, de, f, fault) ==
    LET base == f
        name == PathStem(f)
        ext == PathSuffix(f)
        target == FirstFree(de, base, name, ext, 1)
    IN  MoveResult(ShutilMove(st, de, f, target, fault), target)

\* pdf_you_pick_mover.safe_move(os.path.join(SRC_DIR, f), DEST_DIR)
safe_move_os(st, de, f, fault) ==
    LET base == f
        name == SplitExt(base)[1]
        ext == SplitExt(base)[2]
        target == FirstFree(de, base, name, ext, 1)
    IN  MoveResult(ShutilMove(st, de, f, target, fault), target)

\* The record kept of a safe_move call: its arguments, the file system before
\* it, and its result.
CallRecord(variant, f, st, de, r) ==
    [op |-> "safe_move", variant |-> variant, src |-> f,
     preStaging |-> st, preDest |-> de, raised |-> r.raised, ret |-> r.ret]

NoCall == [op |-> "none"]

(***************************************************************************)
(* pdf_builder.human_size                                                  *)
(*                                                                         *)
(* A byte count is a sequence of base-1024 digits, least significant       *)
(* first, so that counts up to 1024^MaxLimbs fit the checker's integers.   *)
(* The float v of the code is the pair of its integer part (digits, least  *)
(* significant first) and its fraction (digits, most significant first):   *)
(* float(n) and the divisions by 1024 are exact for n < 2^53.              *)
(***************************************************************************)

\* The number of base-1024 digits of a byte count.
MaxLimbs == 5

\* The base-1024 digits of the integer n, 0 <= n < 1024^3.
Limbs(n) ==
    << n % 1024, (n \div 1024) % 1024, n \div (1024 * 1024) >>
      \o [k \in 1..(MaxLimbs - 3) |-> 0]

\* The value of the digits (least significant first).
RECURSIVE LimbsValue(_)
LimbsValue(l) == IF l = << >> THEN 0 ELSE Head(l) + 1024 * LimbsValue(Tail(l))

\* v = float(n)
FloatOf(n) == [int |-> n, frac |-> << >>]

\* v /= 1024
Div1024(v) ==
    [int |-> IF Len(v.int) > 1 THEN Tail(v.int) ELSE << 0 >>,
     frac |-> << v.int[1] >> \o v.frac]

\* (mutant) v <= 1024
LessThan1024_le(v) ==
    \/ \A k \in 2..Len(v.int) : v.int[k] = 0
    \/ /\ v.int[1] = 0 /\ v.int[2] = 1
       /\ \A k \in 3..Len(v.int) : v.int[k] = 0
       /\ \A k \in 1..Len(v.frac) : v.frac[k] = 0

\* v < 1024
LessThan1024(v) == \A k \in 2..Len(v.int) : v.int[k] = 0

\* 10 * f for a fraction f: << the integer part, the fraction >>.
RECURSIVE TimesTen(_)
TimesTen(f) ==
    IF f = << >> THEN << 0, << >> >>
    ELSE LET rest == TimesTen(Tail(f))
             t == 10 * Head(f) + rest[1]
         IN  << t \div 1024, << t % 1024 >> \o rest[2] >>

\* f"{v:.1f}": v to one decimal place, correctly rounded, ties to even.
OneDecimal(v) ==
    LET tt == TimesTen(v.frac)
        floor == 10 * LimbsValue(v.int) + tt[1]
        rem == tt[2]
        restZero == \A k \in 2..Len(rem) : rem[k] = 0
        up == /\ rem # << >>
              /\ \/ rem[1] > 512
                 \/ rem[1] = 512 /\ ~restZero
                 \/ rem[1] = 512 /\ restZero /\ floor % 2 = 1
        tenths == IF up THEN floor + 1 ELSE floor
    IN  Str(tenths \div 10) \o << "." >> \o Str(tenths % 10)

UNITS == << << "B" >>, << "K", "B" >>, << "M", "B" >>, << "G", "B" >>, << "T", "B" >> >>

\* The for loop of human_size, from the k-th unit on.
RECURSIVE HumanLoop(_, _)
HumanLoop(v, k) ==
    IF LessThan1024(v) \/ UNITS[k] = << "T", "B" >>
    THEN IF UNITS[k] = << "B" >>
         THEN Str(LimbsValue(v.int)) \o << " " >> \o UNITS[k]
         ELSE OneDecimal(v) \o << " " >> \o UNITS[k]
    ELSE HumanLoop(Div1024(v), k + 1)

\* human_size(n), n given by its base-1024 digits.
human_size(n) == HumanLoop(FloatOf(n), 1)

(***************************************************************************)
(* Directory enumeration and sorting                                       *)
(***************************************************************************)

\* iterdir() / os.listdir(): the entries of d in some order; the order is the
\* file system's, so every order is possible.
Enumerations(d) ==
    { e \in [1..Cardinality(DOMAIN d) -> DOMAIN d] :
        \A i, j \in DOMAIN e : i # j => e[i] # e[j] }

\* [x for x in seq if Keep(x)], for the three filters of the scripts.
RECURSIVE Filter(_, _)
Filter(seq, keep) ==
    IF seq = << >> THEN << >>
    ELSE IF Head(seq) \in keep THEN << Head(seq) >> \o Filter(Tail(seq), keep)
    ELSE Filter(Tail(seq), keep)

\* One step of the stable sort: x goes after the elements whose key is not
\* greater than its own.
RECURSIVE InsertByLower(_, _)
InsertByLower(sorted, x) ==
    IF sorted = << >> THEN << x >>
    ELSE IF StrLess(Lower(x), Lower(Head(sorted))) THEN << x >> \o sorted
    ELSE << Head(sorted) >> \o InsertByLower(Tail(sorted), x)

\* sorted(seq, key=lambda x: x.lower()) / seq.sort(key=...): a stable sort, so
\* names with equal keys keep the order they have in seq.
RECURSIVE SortByLower(_)
SortByLower(seq) ==
    IF seq = << >> THEN << >>
    ELSE InsertByLower(SortByLower(SubSeq(seq, 1, Len(seq) - 1)), seq[Len(seq)])

(***************************************************************************)
(* pdf_optimised_mover: the keyword batch mover                            *)
(***************************************************************************)

\* is_optimised_pdf(SRC_DIR / n)
is_optimised_pdf(st, n) ==
    LET name_l == Lower(n)
    IN  IsFile(st, n) /\ EndsWith(name_l, DotPdf) /\ Contains(name_l, Lower(KEYWORD))

\* The record kept of one iteration of a move loop: the file, the file system
\* and the locals before it, what the iteration did and what safe_move gave.
IterRecord(prog, f, outcome, r) ==
    [op |-> "iter", prog |-> prog, src |-> f, preStaging |-> staging, preDest |-> dest,
     preLoc |-> loc, outcome |-> outcome, raised |-> r.raised, ret |-> r.ret]

NotCalled == [raised |-> "", ret |-> << >>]

\* main(), lines 45-59: create DEST_DIR if missing, read the destination's file
\* names, list and sort the candidates; return at once when there are none.
\* fs0 remembers the file system the run started from.
MainScan ==
    /\ pc = "main"
    /\ LET de == IF dest = NoDir THEN EmptyDir ELSE dest
           dest_names == { Lower(n) : n \in { m \in DOMAIN de : IsFile(de, m) } }
       IN  /\ dest' = de
           /\ \E e \in Enumerations(staging) :
                LET candidates ==
                        SortByLower(Filter(e, { n \in DOMAIN staging :
                                                  is_optimised_pdf(staging, n) }))
                IN  IF candidates = << >>
                    THEN /\ pc' = "done"
                         /\ out' = << << "No _optimised PDFs found in staging" >> >>
                         /\ loc' = [candidates |-> candidates, dest_names |-> dest_names,
                                    fs0 |-> [staging |-> staging, dest |-> de]]
                    ELSE /\ pc' = "loop"
                         /\ out' = << >>
                         /\ loc' = [candidates |-> candidates, dest_names |-> dest_names,
                                    i |-> 1, moved |-> 0, skipped |-> 0, errors |-> 0,
                                    fs0 |-> [staging |-> staging, dest |-> de]]
    /\ UNCHANGED <<staging, last, faults>>

\* (mutant) no pre-check: every candidate goes to safe_move.
PreCheck_never(p, dest_names) == FALSE

\* The pre-check of the for loop: p.name.lower() in dest_names.
PreCheck(p, dest_names) == Lower(p) \in dest_names

\* The body of the for loop for a candidate the pre-check finds in dest_names.
IterSkip(p) ==
    /\ loc' = [loc EXCEPT !.skipped = @ + 1, !.i = @ + 1]
    /\ last' = IterRecord("batch", p, "skipped", NotCalled)
    /\ UNCHANGED <<staging, dest, out, faults>>

\* (mutant) an error ends the loop.
IterError_abort(p, r) ==
    /\ loc' = [loc EXCEPT !.errors = @ + 1, !.i = Len(loc.candidates) + 1]
    /\ out' = Append(out, << "ERROR", p, r.raised >>)
    /\ last' = IterRecord("batch", p, "error", r)

\* The except clause of the for loop: count the error, print it, go on.
IterError(p, r) ==
    /\ loc' = [loc EXCEPT !.errors = @ + 1, !.i = @ + 1]
    /\ out' = Append(out, << "ERROR", p, r.raised >>)
    /\ last' = IterRecord("batch", p, "error", r)

\* The body of the for loop for a candidate that safe_move moved.
IterMoved(p, r) ==
    /\ loc' = [loc EXCEPT !.moved = @ + 1, !.i = @ + 1,
                          !.dest_names = @ \cup {Lower(r.ret[1])}]
    /\ out' = Append(out, << "MOVED", p, r.ret[1] >>)
    /\ last' = IterRecord("batch", p, "moved", r)

\* One iteration of the for loop of main(), lines 61-74.
MainIter(fault) ==
    /\ pc = "loop"
    /\ loc.i <= Len(loc.candidates)
    /\ LET p == loc.candidates[loc.i]
       IN  IF PreCheck(p, loc.dest_names)
           THEN fault = "none" /\ IterSkip(p)
           ELSE LET r == safe_move(staging, dest, p, fault)
                IN  /\ MayFault(fault)
                    /\ faults' = Faulted(fault)
                    /\ staging' = r.staging
                    /\ dest' = r.dest
                    /\ IF r.raised # "" THEN IterError(p, r) ELSE IterMoved(p, r)
    /\ UNCHANGED pc

\* main(), lines 76-80: the summary, after the last candidate.
MainSummary ==
    /\ pc = "loop"
    /\ loc.i > Len(loc.candidates)
    /\ out' = Append(out, << "Summary", loc.moved, loc.skipped, loc.errors >>)
    /\ pc' = "done"
    /\ UNCHANGED <<staging, dest, loc, last, faults>>

\* The names of the initial states of the movers: r_optimised.pdf,
\* R_OPTIMISED.PDF, n_optimised.txt and s.pdf in staging (r_optimised.pdf
\* possibly a directory); in the destination r_optimised.pdf (possibly a
\* directory), R_OPTIMISED.PDF and s.pdf.
StagingNames == {RepPdf, RepPdfUpper, NotesTxt, SheetPdf}

DestNames == {RepPdf, RepPdfUpper, SheetPdf}

FileSystems ==
    { << Populate("staging", ks), Populate("dest", kd) >> :
        ks \in Dirs("staging", StagingNames, {RepPdf}),
        kd \in Dirs("dest", DestNames, {RepPdf}) }

InitBatch ==
    /\ \E fs \in FileSystems : staging = fs[1] /\ dest = fs[2]
    /\ pc = "main"
    /\ loc = [candidates |-> << >>, dest_names |-> {}]
    /\ out = << >>
    /\ last = NoCall
    /\ faults = 0

NextBatch ==
    \/ MainScan
    \/ \E fault \in Faults : MainIter(fault)
    \/ MainSummary

(***************************************************************************)
(* pdf_you_pick_mover: the interactive picker                              *)
(***************************************************************************)

\* (mutant) the destination's names are compared as they are, not lower-cased.
list_candidates_exact(st, de, e) ==
    LET existing == { m \in DOMAIN de : IsFile(de, m) }
        keep == { f \in DOMAIN st :
                    /\ IsFile(st, f)
                    /\ EndsWith(Lower(f), DotPdf)
                    /\ f \notin existing }
    IN  SortByLower(Filter(e, keep))

\* list_candidates(), given the order e in which os.listdir(SRC_DIR) returns
\* the entries.
list_candidates(st, de, e) ==
    LET existing == { Lower(f) : f \in { m \in DOMAIN de : IsFile(de, m) } }
        keep == { f \in DOMAIN st :
                    /\ IsFile(st, f)
                    /\ EndsWith(Lower(f), DotPdf)
                    /\ Lower(f) \notin existing }
    IN  SortByLower(Filter(e, keep))

\* App.refresh(): the check boxes are rebuilt, all unticked, from
\* list_candidates(); the status line shows their number.
Refreshed(files) ==
    [vars |-> [k \in 1..Len(files) |-> [v |-> FALSE, f |-> files[k]]],
     status |-> Len(files)]

\* App._selected_files()
RECURSIVE SelectedOf(_)
SelectedOf(vs) ==
    IF vs = << >> THEN << >>
    ELSE IF Head(vs).v THEN << Head(vs).f >> \o SelectedOf(Tail(vs))
    ELSE SelectedOf(Tail(vs))

\* The Refresh button.
refresh ==
    /\ pc = "pick"
    /\ \E e \in Enumerations(staging) :
         loc' = Refreshed(list_candidates(staging, dest, e)) @@ [env |-> loc.env]
    /\ out' = << >>
    /\ UNCHANGED <<staging, dest, pc, last, faults>>

\* The user ticks or unticks the k-th check box.
Toggle(k) ==
    /\ pc = "pick"
    /\ k \in 1..Len(loc.vars)
    /\ loc' = [loc EXCEPT !.vars[k].v = ~@]
    /\ out' = << >>
    /\ UNCHANGED <<staging, dest, pc, last, faults>>

\* The Select All button.
select_all ==
    /\ pc = "pick"
    /\ loc' = [loc EXCEPT !.vars = [k \in 1..Len(loc.vars) |-> [loc.vars[k] EXCEPT !.v = TRUE]]]
    /\ out' = << >>
    /\ UNCHANGED <<staging, dest, pc, last, faults>>

\* The Clear button.
clear_all ==
    /\ pc = "pick"
    /\ loc' = [loc EXCEPT !.vars = [k \in 1..Len(loc.vars) |-> [loc.vars[k] EXCEPT !.v = FALSE]]]
    /\ out' = << >>
    /\ UNCHANGED <<staging, dest, pc, last, faults>>

\* The Show selection button.
show_selection ==
    /\ pc = "pick"
    /\ LET selected == SelectedOf(loc.vars)
       IN  out' = IF selected = << >>
                  THEN << << "Selection", "Nothing selected." >> >>
                  ELSE << << "These will MOVE (cut/paste)", selected >> >>
    /\ UNCHANGED <<staging, dest, pc, loc, last, faults>>

\* The MOVE selected button, lines 161-179; ok is the answer to the
\* confirmation dialog.
move_selected(ok) ==
    /\ pc = "pick"
    /\ LET selected == SelectedOf(loc.vars)
       IN  IF selected = << >>
           THEN /\ out' = << << "Nothing selected", "Tick at least one PDF to move." >> >>
                /\ UNCHANGED <<pc, loc>>
           ELSE IF ~ok
           THEN out' = << >> /\ UNCHANGED <<pc, loc>>
           ELSE /\ pc' = "pick_loop"
                /\ loc' = loc @@ [selected |-> selected, i |-> 1, moved |-> 0,
                                  errors |-> << >>,
                                  fs0 |-> [staging |-> staging, dest |-> dest]]
                /\ out' = << >>
    /\ UNCHANGED <<staging, dest, last, faults>>

\* One iteration of the for loop of move_selected, lines 181-189.
PickIter(fault) ==
    /\ pc = "pick_loop"
    /\ loc.i <= Len(loc.selected)
    /\ LET f == loc.selected[loc.i]
       IN  IF ~Exists(staging, f)
           THEN /\ fault = "none"
                /\ loc' = [loc EXCEPT !.i = @ + 1]
                /\ last' = IterRecord("picker", f, "missing", NotCalled)
                /\ UNCHANGED <<staging, dest, faults>>
           ELSE LET r == safe_move_os(staging, dest, f, fault)
                IN  /\ MayFault(fault)
                    /\ faults' = Faulted(fault)
                    /\ staging' = r.staging
                    /\ dest' = r.dest
                    /\ IF r.raised # ""
                       THEN /\ loc' = [loc EXCEPT !.i = @ + 1,
                                                  !.errors = Append(@, << f, r.raised >>)]
                            /\ last' = IterRecord("picker", f, "error", r)
                       ELSE /\ loc' = [loc EXCEPT !.i = @ + 1, !.moved = @ + 1]
                            /\ last' = IterRecord("picker", f, "moved", r)
    /\ UNCHANGED <<pc, out>>

\* The end of the loop of move_selected, lines 191-197: the Done dialog is
\* shown, with the count of moved files and the errors.
PickDone ==
    /\ pc = "pick_loop"
    /\ loc.i > Len(loc.selected)
    /\ out' = << << "Done", loc.moved, loc.errors >> >>
    /\ pc' = "pick_done"
    /\ UNCHANGED <<staging, dest, loc, last, faults>>

\* The Done dialog is dismissed and move_selected ends with refresh(), line 198.
PickRefresh ==
    /\ pc = "pick_done"
    /\ \E e \in Enumerations(staging) :
         loc' = Refreshed(list_candidates(staging, dest, e)) @@ [env |-> loc.env]
    /\ pc' = "pick"
    /\ out' = << >>
    /\ last' = NoCall
    /\ UNCHANGED <<staging, dest, faults>>

\* The bound on what happens to the directories while the picker's window is
\* open.
MaxEnv == 1

\* While the window is open a file appears in the destination.
EnvDestFile(f) ==
    /\ pc = "pick"
    /\ loc.env < MaxEnv
    /\ ~Exists(dest, f)
    /\ dest' = WithEntry(dest, f, File([origin |-> "dest", name |-> f, gen |-> 1,
                                         size |-> 1536], 3))
    /\ loc' = [loc EXCEPT !.env = @ + 1]
    /\ UNCHANGED <<staging, pc, out, last, faults>>

\* While the window is open a staging file is taken away.
EnvStagingGone(f) ==
    /\ pc = "pick"
    /\ loc.env < MaxEnv
    /\ IsFile(staging, f)
    /\ staging' = WithoutEntry(staging, f)
    /\ loc' = [loc EXCEPT !.env = @ + 1]
    /\ UNCHANGED <<dest, pc, out, last, faults>>

\* App.__init__ ends with refresh().
InitPick ==
    /\ \E fs \in FileSystems :
         /\ staging = fs[1]
         /\ dest = fs[2]
         /\ \E e \in Enumerations(fs[1]) :
              loc = Refreshed(list_candidates(fs[1], fs[2], e)) @@ [env |-> 0]
    /\ pc = "pick"
    /\ out = << >>
    /\ last = NoCall
    /\ faults = 0

NextPick ==
    \/ refresh
    \/ \E k \in 1..MaxEntries : Toggle(k)
    \/ select_all
    \/ clear_all
    \/ show_selection
    \/ \E ok \in BOOLEAN : move_selected(ok)
    \/ \E fault \in Faults : PickIter(fault)
    \/ PickDone
    \/ PickRefresh
    \/ \E f \in DestNames : EnvDestFile(f)
    \/ \E f \in StagingNames : EnvStagingGone(f)

(***************************************************************************)
(* SpecMove: safe_move called directly, on any source name (present or     *)
(* not) and any destination (present or not), several times in sequence;   *)
(* between calls new files may appear in staging.                          *)
(***************************************************************************)

\* The bound on the safe_move calls of one behaviour, and on the new files.
MaxCalls == 3

MaxNew == 2

MoveNames == {APdf, BarePdf}

MoveDestNames == {APdf, A1Pdf, BarePdf}

InitMove ==
    /\ staging \in { Populate("staging", k) : k \in Dirs("staging", MoveNames, {}) }
    /\ dest \in {NoDir} \cup
                { Populate("dest", k) : k \in Dirs("dest", MoveDestNames, {APdf}) }
    /\ pc = "harness"
    /\ loc = [calls |-> 0, made |-> 0]
    /\ out = << >>
    /\ last = NoCall
    /\ faults = 0

\* One call of the pathlib variant.
CallSafeMove(f, fault) ==
    /\ pc = "harness"
    /\ loc.calls < MaxCalls
    /\ MayFault(fault)
    /\ faults' = Faulted(fault)
    /\ LET r == safe_move(staging, dest, f, fault)
       IN  /\ staging' = r.staging
           /\ dest' = r.dest
           /\ last' = CallRecord("pathlib", f, staging, dest, r)
    /\ loc' = [loc EXCEPT !.calls = @ + 1]
    /\ UNCHANGED <<pc, out>>

\* One call of the os.path variant.
CallSafeMoveOs(f, fault) ==
    /\ pc = "harness"
    /\ loc.calls < MaxCalls
    /\ MayFault(fault)
    /\ faults' = Faulted(fault)
    /\ LET r == safe_move_os(staging, dest, f, fault)
       IN  /\ staging' = r.staging
           /\ dest' = r.dest
           /\ last' = CallRecord("os.path", f, staging, dest, r)
    /\ loc' = [loc EXCEPT !.calls = @ + 1]
    /\ UNCHANGED <<pc, out>>

\* A new file appears in staging under a free name.
NewStagingFile(f) ==
    /\ pc = "harness"
    /\ loc.made < MaxNew
    /\ f \notin DOMAIN staging
    /\ staging' = WithEntry(staging, f,
                      File([origin |-> "staging", name |-> f, gen |-> loc.made + 1,
                            size |-> 2048], 3))
    /\ loc' = [loc EXCEPT !.made = @ + 1]
    /\ last' = NoCall
    /\ UNCHANGED <<dest, pc, out, faults>>

NextMove ==
    \/ \E f \in MoveNames, fault \in Faults : CallSafeMove(f, fault)
    \/ \E f \in MoveNames, fault \in Faults : CallSafeMoveOs(f, fault)
    \/ \E f \in MoveNames : NewStagingFile(f)

SpecMove == InitMove /\ [][NextMove]_vars

\* The state is the one a safe_move call has just left.
Called == last.op = "safe_move"

\* C1: safe_move never destroys an existing destination entry: every entry the
\* destination held before the call is there afterwards under the same name,
\* unchanged, whether the call returned or raised, in both variants.
C1_NoDestroy ==
    (Called /\ last.preDest # NoDir) =>
        /\ dest # NoDir
        /\ \A n \in DOMAIN last.preDest :
              n \in DOMAIN dest /\ dest[n] = last.preDest[n]

\* C1 witness: a call (os.path variant) whose base name was taken by a regular
\* file in the destination has returned.
C1_Witness ==
    /\ Called /\ last.raised = "" /\ last.variant = "os.path"
    /\ IsFile(last.preDest, last.src)

\* C2: a successful safe_move of a file whose base name is free in the
\* destination leaves the file's content there under that base name, leaves
\* nothing at the source path, and returns exactly that path.
C2_MoveFree ==
    (Called /\ last.raised = "" /\ ~Exists(last.preDest, last.src)) =>
        /\ last.ret = << last.src >>
        /\ Exists(dest, last.src)
        /\ dest[last.src] = last.preStaging[last.src]
        /\ ~Exists(staging, last.src)

\* C2 witness: such a call (pathlib variant) into a non-empty destination.
C2_Witness ==
    /\ Called /\ last.raised = "" /\ last.variant = "pathlib"
    /\ ~Exists(last.preDest, last.src)
    /\ DOMAIN last.preDest # {}

\* The stem and the extension of a base name, as the claim means them: the
\* extension starts at the last dot, if characters other than dots precede that
\* dot and a character follows it, and is empty otherwise.
StemExt(base) ==
    LET cut == { i \in 2..(Len(base) - 1) :
                   /\ base[i] = "."
                   /\ \A j \in (i + 1)..Len(base) : base[j] # "."
                   /\ \E j \in 1..(i - 1) : base[j] # "." }
    IN  IF cut = {} THEN << base, << >> >>
        ELSE LET i == CHOOSE i \in cut : TRUE
             IN  << SubSeq(base, 1, i - 1), SubSeq(base, i, Len(base)) >>

\* "{stem} ({n}){ext}" of a base name, written out.
Disambiguated(base, n) ==
    StemExt(base)[1] \o << " ", "(" >> \o Str(n) \o << ")" >> \o StemExt(base)[2]

\* C3: when dest/basename(src) exists, a successful safe_move relocates src to
\* "{stem} ({n}){ext}" for the smallest n >= 1 whose path did not exist,
\* returns that path, and leaves the earlier files intact; so a.pdf goes to
\* "a (1).pdf" when only a.pdf is there, and to "a (2).pdf" when "a (1).pdf"
\* is there too.
C3_Disambiguate ==
    (Called /\ last.raised = "" /\ Exists(last.preDest, last.src)) =>
        /\ \E n \in 1..(Cardinality(DOMAIN last.preDest) + 1) :
              /\ last.ret = << Disambiguated(last.src, n) >>
              /\ ~Exists(last.preDest, Disambiguated(last.src, n))
              /\ \A m \in 1..(n - 1) : Exists(last.preDest, Disambiguated(last.src, m))
        /\ Exists(dest, last.ret[1])
        /\ dest[last.ret[1]] = last.preStaging[last.src]
        /\ ~Exists(staging, last.src)
        /\ \A e \in DOMAIN last.preDest : Exists(dest, e) /\ dest[e] = last.preDest[e]
        /\ (last.src = APdf /\ ~Exists(last.preDest, A1Pdf)) => last.ret = << A1Pdf >>
        /\ (last.src = APdf /\ Exists(last.preDest, A1Pdf) /\ ~Exists(last.preDest, A2Pdf))
              => last.ret = << A2Pdf >>

\* C3 witness: three files named a.pdf were moved in sequence into an empty
\* destination, which now holds a.pdf, "a (1).pdf" and "a (2).pdf", three
\* different files; the third call returned "a (2).pdf".
C3_Witness ==
    /\ Called /\ last.raised = "" /\ last.src = APdf /\ last.ret = << A2Pdf >>
    /\ loc.calls = 3
    /\ DOMAIN dest = {APdf, A1Pdf, A2Pdf}
    /\ \A n \in DOMAIN dest : dest[n].kind = "file" /\ dest[n].content.origin = "staging"
    /\ Cardinality({ dest[n].content : n \in DOMAIN dest }) = 3

\* C7: safe_move raises (the error leaves safe_move) when the source file or
\* the destination directory does not exist, and then neither directory is
\* changed.
C7_MissingFails ==
    (Called /\ (~Exists(last.preStaging, last.src) \/ last.preDest = NoDir)) =>
        /\ last.raised # ""
        /\ last.ret = << >>
        /\ staging = last.preStaging
        /\ dest = last.preDest

\* C7 witness: an existing source was moved to a destination directory that
\* does not exist.
C7_Witness ==
    /\ Called /\ last.preDest = NoDir /\ Exists(last.preStaging, last.src)
    /\ last.raised = "FileNotFoundError"

\* The two movers: a run of the batch mover, or a session of the picker.
Init == InitBatch \/ InitPick

Next == NextBatch \/ NextPick

Spec == Init /\ [][Next]_vars

\* The state is the one an iteration of the batch mover's loop has just left.
BatchIter == last.op = "iter" /\ last.prog = "batch"

\* C4: a candidate of the batch mover whose exact name is that of a regular
\* file in the destination is skipped: safe_move is not called, staging and
\* the destination are as before (no "(n)" copy), and the file is counted as
\* skipped, not as moved or as an error.
C4_PreCheckSkips ==
    (BatchIter /\ IsFile(last.preDest, last.src)) =>
        /\ last.outcome = "skipped"
        /\ last.raised = "" /\ last.ret = << >>
        /\ staging = last.preStaging
        /\ dest = last.preDest
        /\ loc.skipped = last.preLoc.skipped + 1
        /\ loc.moved = last.preLoc.moved
        /\ loc.errors = last.preLoc.errors
        /\ \A k \in 1..Len(out) : out[k][1] \in {"MOVED", "ERROR"} => out[k][2] # last.src

\* C4 witness: the loop has skipped a candidate that is in the destination
\* under exactly its name, with a different content.
C4_Witness ==
    /\ BatchIter /\ last.outcome = "skipped"
    /\ IsFile(last.preDest, last.src)
    /\ dest[last.src] # staging[last.src]

\* C5, as claimed, for runs that no error disturbs and destinations that hold
\* only regular files: when the batch mover has ended, exactly the regular
\* files of staging whose name ends with ".pdf" and contains "_optimised"
\* (case-insensitively) and is not, exactly, a name of the destination are in
\* the destination and gone from staging; every other entry of staging is
\* where and what it was.
C5_MovesExactly ==
    (/\ pc = "done"
     /\ faults = 0
     /\ \A n \in DOMAIN loc.fs0.dest : loc.fs0.dest[n].kind = "file") =>
        LET st0 == loc.fs0.staging
            wanted == { n \in DOMAIN st0 :
                          /\ st0[n].kind = "file"
                          /\ EndsWith(Lower(n), DotPdf)
                          /\ Contains(Lower(n), KEYWORD)
                          /\ n \notin DOMAIN loc.fs0.dest }
        IN  \A n \in DOMAIN st0 :
              IF n \in wanted
              THEN ~Exists(staging, n) /\ Exists(dest, n) /\ dest[n] = st0[n]
              ELSE Exists(staging, n) /\ staging[n] = st0[n]

\* The number of lines of `lines` that start with `tag`.
RECURSIVE CountTag(_, _)
CountTag(lines, tag) ==
    IF lines = << >> THEN 0
    ELSE (IF Head(lines)[1] = tag THEN 1 ELSE 0) + CountTag(Tail(lines), tag)

\* C6: an error while moving one file does not end the batch.  In the batch
\* mover the failed file is counted and printed with its name and message and
\* the loop goes on to the next candidate; when the run has ended every
\* candidate was handled (moved, skipped or failed) and the summary is the last
\* thing printed.  In the picker the failed file is put on the error list with
\* its name and message and the loop goes on; the Done dialog comes after the
\* last selected file and shows the count and the errors.
C6_ErrorsIsolated ==
    /\ (BatchIter /\ last.outcome = "error") =>
          /\ last.raised # ""
          /\ loc.errors = last.preLoc.errors + 1
          /\ loc.i = last.preLoc.i + 1
          /\ CountTag(out, "ERROR") = loc.errors
          /\ \E k \in 1..Len(out) : out[k] = << "ERROR", last.src, last.raised >>
    /\ (pc = "loop" /\ loc.i <= Len(loc.candidates)) => ENABLED MainIter("none")
    /\ (pc = "done" /\ loc.candidates # << >>) =>
          /\ loc.i = Len(loc.candidates) + 1
          /\ loc.moved + loc.skipped + loc.errors = Len(loc.candidates)
          /\ out[Len(out)] = << "Summary", loc.moved, loc.skipped, loc.errors >>
          /\ CountTag(out, "ERROR") = loc.errors
          /\ CountTag(out, "MOVED") = loc.moved
    /\ (pc = "pick_loop" /\ last.op = "iter" /\ last.prog = "picker"
          /\ last.outcome = "error" /\ loc.i > 1) =>
          /\ loc.errors = Append(last.preLoc.errors, << last.src, last.raised >>)
          /\ loc.i = last.preLoc.i + 1
          /\ loc.moved = last.preLoc.moved
    /\ pc = "pick_done" =>
          /\ loc.i = Len(loc.selected) + 1
          /\ loc.moved + Len(loc.errors) <= Len(loc.selected)
          /\ out = << << "Done", loc.moved, loc.errors >> >>

\* C6 witness: a run of the batch mover has ended in which the first candidate
\* failed and the second was moved all the same.
C6_Witness ==
    /\ pc = "done" /\ Len(out) = 3
    /\ out[1][1] = "ERROR" /\ out[2][1] = "MOVED"
    /\ out[3] = << "Summary", 1, 0, 1 >>

(***************************************************************************)
(* SpecSize: human_size applied to a byte count                            *)
(***************************************************************************)

\* The digits the byte counts of SpecSize are made of.
LimbValues == {0, 1, 2, 512, 999, 1023}

InitSize ==
    /\ staging = EmptyDir
    /\ dest = EmptyDir
    /\ pc = "size"
    /\ loc \in { [n |-> l] : l \in [1..MaxLimbs -> LimbValues] }
    /\ out = << >>
    /\ last = NoCall
    /\ faults = 0

\* size_h = human_size(n)
CallHumanSize ==
    /\ pc = "size"
    /\ out' = << human_size(loc.n) >>
    /\ pc' = "sized"
    /\ UNCHANGED <<staging, dest, loc, last, faults>>

NextSize == CallHumanSize

SpecSize == InitSize /\ [][NextSize]_vars

\* The position of the first blank of a text (0 when it has none).
BlankAt(text) ==
    IF \E k \in 1..Len(text) : text[k] = " "
    THEN CHOOSE k \in 1..Len(text) : text[k] = " " /\ \A j \in 1..(k - 1) : text[j] # " "
    ELSE 0

IsDigit(c) == c \in { Digits[k] : k \in 1..10 }

\* The unit the claim gives a byte count: the first of B, KB, MB, GB, TB at
\* which the count, divided by 1024 once per step, is below 1024; TB if none.
ClaimedUnit(n) ==
    LET top == IF \E k \in 1..Len(n) : n[k] # 0
               THEN CHOOSE k \in 1..Len(n) : n[k] # 0 /\ \A j \in (k + 1)..Len(n) : n[j] = 0
               ELSE 1
        steps == IF top > 5 THEN 5 ELSE top
    IN  << << "B" >>, << "K", "B" >>, << "M", "B" >>, << "G", "B" >>, << "T", "B" >> >>[steps]

\* The whole units of a byte count in the claimed unit (the count divided by
\* 1024 once per step, rounded down).
ClaimedWhole(n) ==
    LET top == IF \E k \in 1..Len(n) : n[k] # 0
               THEN CHOOSE k \in 1..Len(n) : n[k] # 0 /\ \A j \in (k + 1)..Len(n) : n[j] = 0
               ELSE 1
        steps == IF top > 5 THEN 5 ELSE top
    IN  LimbsValue(SubSeq(n, steps, Len(n)))

gather_pdfs_dirs(root, e) ==
    SortByLower(Filter(e, { n \in DOMAIN root : Lower(PathSuffix(n)) = DotPdf }))

\* gather_pdfs(), given the order e in which ROOT.iterdir() returns the entries.
gather_pdfs(root, e) ==
    SortByLower(Filter(e, { n \in DOMAIN root :
                              IsFile(root, n) /\ Lower(PathSuffix(n)) = DotPdf }))

\* The row main() appends for the file p, from p.stat().
Row(root, p) ==
    [p |-> p,
     name_l |-> Lower(p),
     size |-> root[p].content.size,
     size_h |-> human_size(Limbs(root[p].content.size)),
     mtime |-> root[p].mtime]

\* build_html(rows): the document, built in memory from the rows alone.
build_html(rows) == [origin |-> "builder", rows |-> rows, size |-> 1024 + Len(rows)]

\* What OUT holds when write_text has opened it (mode "w" empties it) and
\* fails after the markup of the first k rows.
Truncated(rows, k) == [origin |-> "builder", rows |-> SubSeq(rows, 1, k), size |-> k]

\* The bound on the runs of the builder in one behaviour.
MaxRuns == 2

\* a.pdf, A.pdf, B.PDF, .pdf, n_optimised.txt, index.html; a.pdf and B.PDF may
\* be directories.
RootNames == {APdf, APdfUpper, BPdfUpper, BarePdf, NotesTxt, IndexHtml}

InitBuild ==
    /\ staging = EmptyDir
    /\ dest \in { Populate("dest", k) : k \in Dirs("dest", RootNames, {APdf, BPdfUpper}) }
    /\ pc = "build"
    /\ loc = [run |-> 1, lists |-> << >>, env |-> 0]
    /\ out = << >>
    /\ last = NoCall
    /\ faults = 0

\* main(), line 367: the for loop calls gather_pdfs().  scan remembers the
\* folder as it was scanned.
BuildGather ==
    /\ pc = "build"
    /\ \E e \in Enumerations(dest) :
         loc' = [run |-> loc.run, lists |-> loc.lists, env |-> loc.env,
                 pdfs |-> gather_pdfs(dest, e), i |-> 1, rows |-> << >>,
                 scan |-> dest]
    /\ pc' = "rows"
    /\ out' = << >>
    /\ UNCHANGED <<staging, dest, last, faults>>

\* (mutant) index.html is rewritten after every row.
BuildRow_incremental ==
    /\ pc = "rows"
    /\ loc.i <= Len(loc.pdfs)
    /\ LET p == loc.pdfs[loc.i]
       IN  IF Exists(dest, p)
           THEN /\ loc' = [loc EXCEPT !.rows = Append(@, Row(dest, p)), !.i = @ + 1]
                /\ dest' = WithEntry(dest, IndexHtml,
                                     File(build_html(Append(loc.rows, Row(dest, p))), 4))
                /\ UNCHANGED <<pc, out>>
           ELSE /\ pc' = "failed"
                /\ out' = << << "FileNotFoundError", p >> >>
                /\ UNCHANGED <<loc, dest>>
    /\ UNCHANGED <<staging, last, faults>>

\* One iteration of the for loop of main(), lines 368-377: p.stat() raises when
\* the file is gone, and nothing catches it.
BuildRow ==
    /\ pc = "rows"
    /\ loc.i <= Len(loc.pdfs)
    /\ LET p == loc.pdfs[loc.i]
       IN  IF Exists(dest, p)
           THEN /\ loc' = [loc EXCEPT !.rows = Append(@, Row(dest, p)), !.i = @ + 1]
                /\ UNCHANGED <<pc, out>>
           ELSE /\ pc' = "failed"
                /\ out' = << << "FileNotFoundError", p >> >>
                /\ UNCHANGED loc
    /\ UNCHANGED <<staging, dest, last, faults>>

\* main(), lines 379-381: index.html is written in one piece and the counts
\* are printed.
BuildWrite ==
    /\ pc = "rows"
    /\ loc.i > Len(loc.pdfs)
    /\ dest' = WithEntry(dest, IndexHtml, File(build_html(loc.rows), 4))
    /\ out' = << << "Wrote", IndexHtml >>, << "PDFs found", Len(loc.rows) >> >>
    /\ loc' = [loc EXCEPT !.lists = Append(@, loc.rows)]
    /\ pc' = "built"
    /\ UNCHANGED <<staging, last, faults>>

\* main(), line 379, when the write itself fails (OSError: the disk is full):
\* write_text has emptied the file, nothing catches the error.
BuildWriteFailed ==
    /\ pc = "rows"
    /\ loc.i > Len(loc.pdfs)
    /\ faults < MaxFaults
    /\ \E k \in 0..Len(loc.rows) :
         dest' = WithEntry(dest, IndexHtml, File(Truncated(loc.rows, k), 4))
    /\ out' = << << "OSError", IndexHtml >> >>
    /\ faults' = faults + 1
    /\ pc' = "failed"
    /\ UNCHANGED <<staging, loc, last>>

\* The builder is run again.
BuildAgain ==
    /\ pc = "built"
    /\ loc.run < MaxRuns
    /\ loc' = [run |-> loc.run + 1, lists |-> loc.lists, env |-> loc.env]
    /\ pc' = "build"
    /\ UNCHANGED <<staging, dest, out, last, faults>>

\* A file of the folder is deleted while the builder is between enumeration
\* and metadata capture.
EnvRootGone(f) ==
    /\ pc = "rows"
    /\ loc.env < MaxEnv
    /\ IsFile(dest, f)
    /\ dest' = WithoutEntry(dest, f)
    /\ loc' = [loc EXCEPT !.env = @ + 1]
    /\ UNCHANGED <<staging, pc, out, last, faults>>

NextBuild ==
    \/ BuildGather
    \/ BuildRow
    \/ BuildWrite
    \/ BuildWriteFailed
    \/ BuildAgain
    \/ \E f \in RootNames : EnvRootGone(f)

SpecBuild == InitBuild /\ [][NextBuild]_vars

\* A list of names is in ascending order of the lower-cased names.
AscendingLower(l) == \A k \in 1..(Len(l) - 1) : StrLeq(Lower(l[k]), Lower(l[k + 1]))

\* A list holds exactly the names of the set S, each once.
ListsExactly(l, S) ==
    /\ { l[k] : k \in 1..Len(l) } = S
    /\ \A j, k \in 1..Len(l) : j # k => l[j] # l[k]

\* The builder has scanned the folder.
Scanned == pc \in {"rows", "failed", "built"}

\* C8, as claimed: the list of gather_pdfs holds exactly the regular files of
\* the folder whose name ends with ".pdf" (case-insensitively), each once, in
\* ascending order of the lower-cased names.
C8_AsClaimed ==
    Scanned =>
        /\ ListsExactly(loc.pdfs, { n \in DOMAIN loc.scan :
                                      /\ loc.scan[n].kind = "file"
                                      /\ EndsWith(Lower(n), DotPdf) })
        /\ AscendingLower(loc.pdfs)

\* C8, amended: the list of gather_pdfs holds exactly the regular files of the
\* folder whose name ends with ".pdf" (case-insensitively) and is longer than
\* that extension (the file named ".pdf" has no suffix and is left out), each
\* once, in ascending order of the lower-cased names.
C8_Manifest ==
    Scanned =>
        /\ ListsExactly(loc.pdfs, { n \in DOMAIN loc.scan :
                                      /\ loc.scan[n].kind = "file"
                                      /\ EndsWith(Lower(n), DotPdf)
                                      /\ Len(n) > Len(DotPdf) })
        /\ AscendingLower(loc.pdfs)

\* C8 witness: a folder of a.pdf and B.PDF was scanned; a.pdf comes first,
\* though "B" precedes "a" in code-point order.
C8_Witness ==
    /\ Scanned
    /\ DOMAIN loc.scan = {APdf, BPdfUpper}
    /\ loc.pdfs = << APdf, BPdfUpper >>

\* C9, as claimed: two runs of the builder with no change of the folder
\* between them, other than the index.html the first run wrote, end with the
\* same list of rows (order, name, size, mtime).
C9_SameListTwice ==
    (pc = "built" /\ Len(loc.lists) = 2 /\ loc.env = 0) => loc.lists[1] = loc.lists[2]

\* C11: index.html is written only when the scan is over and a row has been
\* captured for every listed file; the write puts the document built from
\* those rows under index.html (or, when the write itself fails, a truncation
\* of that document), whatever the file held before, and touches nothing
\* else; a run that aborts before the write (a listed file is gone when it is
\* stat-ed) leaves the folder, the previous index.html included, as it was.
C11_WriteLast ==
    [][ /\ dest' # dest =>
             \/ \E f \in RootNames : EnvRootGone(f)
             \/ /\ pc = "rows"
                /\ loc.i > Len(loc.pdfs)
                /\ Len(loc.rows) = Len(loc.pdfs)
                /\ \A k \in 1..Len(loc.pdfs) : loc.rows[k].p = loc.pdfs[k]
                /\ DOMAIN dest' = DOMAIN dest \cup {IndexHtml}
                /\ \A n \in DOMAIN dest : n # IndexHtml => dest'[n] = dest[n]
                /\ dest'[IndexHtml].kind = "file"
                /\ \/ pc' = "built" /\ dest'[IndexHtml].content = build_html(loc.rows)
                   \/ /\ pc' = "failed"
                      /\ \E k \in 0..Len(loc.rows) :
                           dest'[IndexHtml].content = Truncated(loc.rows, k)
        /\ (pc = "rows" /\ pc' = "failed" /\ out'[1][1] = "FileNotFoundError")
             => dest' = dest
      ]_vars

\* C11 witness: the second run has captured one row and aborted on a file
\* that was gone; index.html still holds the two rows of the first run.
C11_Witness ==
    /\ pc = "failed"
    /\ out[1][1] = "FileNotFoundError"
    /\ loc.run = 2
    /\ Len(loc.rows) = 1
    /\ Len(loc.lists[1]) = 2
    /\ IsFile(dest, IndexHtml)
    /\ dest[IndexHtml].content = build_html(loc.lists[1])

(***************************************************************************)
(* The files of a whole run of a mover                                     *)
(***************************************************************************)

\* The regular files of a directory, as a set of contents.
ContentsOf(d) == IF d = NoDir THEN {} ELSE { d[n].content : n \in { m \in DOMAIN d : d[m].kind = "file" } }

\* The places (directory, name) at which the file system (st, de) holds a
\* regular file of content c.
PlacesOf(st, de, c) ==
    { << "staging", n >> : n \in { m \in DOMAIN st : IsFile(st, m) /\ st[m].content = c } }
      \cup (IF de = NoDir THEN {}
            ELSE { << "dest", n >> : n \in { m \in DOMAIN de : IsFile(de, m) /\ de[m].content = c } })

\* A run of the batch mover or of move_selected has ended.
RunEnded == pc \in {"done", "pick_done"}

\* C12, as claimed: when a run of the batch mover or of move_selected has
\* ended, every file that staging or the destination held when the run began
\* is at exactly one place of staging and destination, its content unchanged,
\* and no file counted as moved is at its staging path.
C12_NoLossNoDuplicate ==
    /\ RunEnded =>
         \A c \in ContentsOf(loc.fs0.staging) \cup ContentsOf(loc.fs0.dest) :
           Cardinality(PlacesOf(staging, dest, c)) = 1
    /\ (last # NoCall /\ last.op = "iter" /\ last.outcome = "moved")
         => ~Exists(staging, last.src)

(***************************************************************************)
(* The picker's list and its move loop                                     *)
(***************************************************************************)

\* The names of the check boxes of the picker, in their order.
Listed(l) == [k \in 1..Len(l.vars) |-> l.vars[k].f]

\* The PDF files of staging: regular files whose lower-cased name ends with
\* ".pdf".
StagingPdfs == { f \in DOMAIN staging : IsFile(staging, f) /\ EndsWith(Lower(f), DotPdf) }

\* A list is the claimed list: the PDF files of staging that the destination
\* does not hold as a regular file of exactly that name, each once, in
\* ascending order of the lower-cased names.
ListedByExactName(files) ==
    /\ ListsExactly(files, { f \in StagingPdfs : ~IsFile(dest, f) })
    /\ AscendingLower(files)

\* A list is the code's list: the PDF files of staging for which the
\* destination holds no regular file of the same name up to case, each once,
\* in ascending order of the lower-cased names.
ListedUpToCase(files) ==
    /\ ListsExactly(files, { f \in StagingPdfs :
                               ~\E m \in DOMAIN dest : IsFile(dest, m) /\ Lower(m) = Lower(f) })
    /\ AscendingLower(files)

\* C13, as claimed: the list the picker shows, the directories being as they
\* were when it was made, is the list by exact name; and when move_selected
\* has ended safe_move was called once for each selected file (each call
\* either moved the file or is in the error list).
C13_AsClaimed ==
    /\ (pc = "pick" /\ loc.env = 0) => ListedByExactName(Listed(loc))
    /\ pc = "pick_done" => loc.moved + Len(loc.errors) = Len(loc.selected)

\* One iteration of the move loop deals with the next selected file: if the
\* file is still in staging safe_move is called for it, with no look at the
\* destination first, and a file moved while its name is taken in the
\* destination arrives under another name and leaves the holder of the name
\* as it was; if the file is gone from staging nothing is called or changed.
PickIterAsAmended ==
    (pc = "pick_loop" /\ loc.i <= Len(loc.selected) /\ loc' # loc) =>
        LET f == loc.selected[loc.i]
        IN  /\ loc'.i = loc.i + 1
            /\ loc'.selected = loc.selected
            /\ last'.op = "iter" /\ last'.src = f
            /\ IF Exists(staging, f)
               THEN /\ last'.outcome \in {"moved", "error"}
                    /\ last'.outcome = "moved" =>
                         /\ loc'.moved = loc.moved + 1
                         /\ ~Exists(staging', f)
                         /\ dest'[last'.ret[1]] = staging[f]
                         /\ Exists(dest, f) => (last'.ret[1] # f /\ dest'[f] = dest[f])
                    /\ last'.outcome = "error" =>
                         loc'.errors = Append(loc.errors, << f, last'.raised >>)
               ELSE /\ last'.outcome = "missing"
                    /\ UNCHANGED <<staging, dest>>
                    /\ loc'.moved = loc.moved /\ loc'.errors = loc.errors

\* C13, amended: the picker's list is the regular files of staging whose name
\* ends with ".pdf" (case-insensitively) and for which the destination holds
\* no regular file of the same name up to case, each once, in case-insensitive
\* name order; move_selected, once confirmed, deals with each selected file
\* once, in order, calling safe_move for it unless the file is gone from
\* staging (then it is passed over silently), with no pre-check against the
\* destination: a name that appeared there after the listing is
\* disambiguated, not skipped.
C13_Picker ==
    /\ []((pc = "pick" /\ loc.env = 0) => ListedUpToCase(Listed(loc)))
    /\ [][(refresh \/ PickRefresh) => ListedUpToCase(Listed(loc'))]_vars
    /\ [](pc \in {"pick_loop", "pick_done"} =>
            /\ \A j, k \in 1..Len(loc.selected) : j # k => loc.selected[j] # loc.selected[k]
            /\ loc.moved + Len(loc.errors) <= loc.i - 1
            /\ pc = "pick_done" => loc.i = Len(loc.selected) + 1)
    /\ [][PickIterAsAmended]_vars

\* C13 witness: a selected file whose name appeared in the destination after
\* the listing was moved, under a numbered name.
C13_Witness ==
    /\ pc = "pick_done"
    /\ last # NoCall
    /\ last.prog = "picker"
    /\ last.outcome = "moved"
    /\ IsFile(last.preDest, last.src)
    /\ last.preDest[last.src].content.gen = 1
    /\ last.ret[1] = Numbered(SplitExt(last.src)[1], 1, SplitExt(last.src)[2])
    /\ IsFile(dest, last.ret[1])

(***************************************************************************)
(* SpecPush: pdf_aggressive_push.main.  out is the trace of the commands   *)
(* the script has run, each with its return code; loc holds what the       *)
(* script finds (git on PATH, a .git directory, a HEAD commit, the builder *)
(* script) and its locals.  The outcome of every command is the            *)
(* environment's choice.                                                   *)
(***************************************************************************)

\* The toggle: build index.html before the push.
RUN_BUILDER == TRUE

\* The default commit message.
Update == << "u", "p", "d", "a", "t", "e" >>

\* What the user may type at the commit message prompt: nothing, a blank, a
\* word, a word between blanks.
TypedMessages == { << >>, << " " >>, << "f", "i", "x" >>, << " ", "f", "i", "x", " " >> }

\* str.strip()
RECURSIVE Strip(_)
Strip(t) ==
    IF t = << >> THEN t
    ELSE IF Head(t) = " " THEN Strip(Tail(t))
    ELSE IF t[Len(t)] = " " THEN Strip(SubSeq(t, 1, Len(t) - 1))
    ELSE t

\* prompt_commit_message(), typed being the line read by input().
prompt_commit_message(typed) == IF Strip(typed) = << >> THEN Update ELSE Strip(typed)

\* The trace entry of a command run with return code rc.
Ran(cmd, rc) == [cmd |-> cmd, rc |-> rc]

\* The return codes of a command.
ReturnCodes == {0, 1}

\* The script ends: sys.exit(status), an uncaught CalledProcessError (status
\* 1), or the end of main() (status 0).
Exit(status) ==
    /\ pc' = "exit"
    /\ loc' = [loc EXCEPT !.status = status]

InitPush ==
    /\ staging = EmptyDir
    /\ dest = EmptyDir
    /\ pc = "push_main"
    /\ loc \in { l \in [git : BOOLEAN, gitdir : BOOLEAN, head : BOOLEAN, builder : BOOLEAN,
                        dirty : {FALSE}, status : {-1}] :
                   l.head => l.gitdir }
    /\ out = << >>
    /\ last = NoCall
    /\ faults = 0

\* main(), lines 114-120: without git the script exits with status 1.
GitAvailable ==
    /\ pc = "push_main"
    /\ IF loc.git
       THEN pc' = "ensure_repo" /\ UNCHANGED loc
       ELSE Exit(1)
    /\ UNCHANGED <<staging, dest, out, last, faults>>

\* ensure_repo(): git init when there is no .git directory (a failure
\* raises), then git branch -M main (a failure is ignored).
ensure_repo ==
    /\ pc = "ensure_repo"
    /\ \E rcInit, rcBranch \in ReturnCodes :
         IF ~loc.gitdir /\ rcInit # 0
         THEN /\ out' = Append(out, Ran("git init", rcInit))
              /\ Exit(1)
         ELSE /\ out' = (IF loc.gitdir THEN out ELSE Append(out, Ran("git init", 0)))
                          \o << Ran("git branch -M", rcBranch) >>
              /\ \/ loc.gitdir /\ rcInit = 0
                 \/ ~loc.gitdir
              /\ loc' = [loc EXCEPT !.gitdir = TRUE]
              /\ pc' = "ensure_remote"
    /\ UNCHANGED <<staging, dest, last, faults>>

\* ensure_remote(): git remote add, or git remote set-url when the remote is
\* there; a failure raises.
ensure_remote ==
    /\ pc = "ensure_remote"
    /\ \E known \in BOOLEAN, rc \in ReturnCodes :
         /\ out' = Append(out, Ran(IF known THEN "git remote set-url" ELSE "git remote add", rc))
         /\ IF rc # 0 THEN Exit(1) ELSE pc' = "ensure_identity" /\ UNCHANGED loc
    /\ UNCHANGED <<staging, dest, last, faults>>

\* ensure_identity(): user.name and user.email are set when empty; failures
\* are ignored.
ensure_identity ==
    /\ pc = "ensure_identity"
    /\ \E name, email \in BOOLEAN, rc \in ReturnCodes :
         /\ (name /\ email) => rc = 0
         /\ out' = out \o (IF name THEN << >> ELSE << Ran("git config user.name", rc) >>)
                       \o (IF email THEN << >> ELSE << Ran("git config user.email", rc) >>)
    /\ pc' = "pull"
    /\ UNCHANGED <<staging, dest, loc, last, faults>>

\* maybe_pull_rebase(): git fetch, then git pull --rebase when the remote has
\* the branch; failures are ignored.  A pull that succeeds leaves a HEAD
\* commit.
maybe_pull_rebase ==
    /\ pc = "pull"
    /\ \E rcFetch \in ReturnCodes, heads \in BOOLEAN, rcPull \in ReturnCodes :
         /\ ~heads => rcPull = 0
         /\ out' = Append(out, Ran("git fetch", rcFetch))
                     \o (IF heads THEN << Ran("git pull --rebase", rcPull) >> ELSE << >>)
         /\ loc' = [loc EXCEPT !.head = @ \/ (heads /\ rcPull = 0)]
    /\ pc' = "builder"
    /\ UNCHANGED <<staging, dest, last, faults>>

\* run_builder_if_enabled(): the builder is run when RUN_BUILDER is set and
\* the script is there; its return code is reported and ignored.
run_builder_if_enabled ==
    /\ pc = "builder"
    /\ IF RUN_BUILDER /\ loc.builder
       THEN \E rc \in ReturnCodes : out' = Append(out, Ran("python pdf_builder.py", rc))
       ELSE out' = out
    /\ pc' = "add"
    /\ UNCHANGED <<staging, dest, loc, last, faults>>

\* (mutant) git add is run with check=False.
GitAdd_unchecked ==
    /\ pc = "add"
    /\ \E rc \in ReturnCodes : out' = Append(out, Ran("git add -A", rc))
    /\ pc' = "commit"
    /\ UNCHANGED <<staging, dest, loc, last, faults>>

\* main(), line 131: git add -A; a failure raises.
GitAdd ==
    /\ pc = "add"
    /\ \E rc \in ReturnCodes :
         /\ out' = Append(out, Ran("git add -A", rc))
         /\ IF rc # 0 THEN Exit(1) ELSE pc' = "commit" /\ UNCHANGED loc
    /\ UNCHANGED <<staging, dest, last, faults>>

\* main(), lines 133-138: a dirty working tree is committed with the
\* prompted message (a failure is ignored); a commit that succeeds leaves a
\* HEAD commit.
GitCommit ==
    /\ pc = "commit"
    /\ \E dirty \in BOOLEAN :
         IF dirty
         THEN \E typed \in TypedMessages, rc \in ReturnCodes :
                /\ out' = Append(out, [cmd |-> "git commit -m", rc |-> rc, typed |-> typed,
                                       msg |-> prompt_commit_message(typed)])
                /\ loc' = [loc EXCEPT !.dirty = TRUE, !.head = @ \/ rc = 0]
         ELSE /\ out' = out
              /\ loc' = [loc EXCEPT !.dirty = FALSE]
    /\ pc' = "push"
    /\ UNCHANGED <<staging, dest, last, faults>>

\* main(), lines 141-147: without a HEAD commit the script exits with status
\* 1; otherwise git push -u origin main, a failure of which raises.
GitPush ==
    /\ pc = "push"
    /\ IF ~loc.head
       THEN out' = out /\ Exit(1)
       ELSE \E rc \in ReturnCodes :
              /\ out' = Append(out, Ran("git push -u", rc))
              /\ Exit(rc)
    /\ UNCHANGED <<staging, dest, last, faults>>

NextPush ==
    \/ GitAvailable
    \/ ensure_repo
    \/ ensure_remote
    \/ ensure_identity
    \/ maybe_pull_rebase
    \/ run_builder_if_enabled
    \/ GitAdd
    \/ GitCommit
    \/ GitPush

SpecPush == InitPush /\ [][NextPush]_vars

\* The positions of a command in the trace.
At(cmd) == { k \in 1..Len(out) : out[k].cmd = cmd }

\* C14: in the trace of the push script the builder, when enabled and
\* present, has run before git add -A, and never after it; git commit comes
\* only after a git add -A that succeeded, only for a dirty working tree, with
\* the typed message stripped or "update" when that is blank; git push comes
\* only after a git add -A that succeeded and after the commit step, only with
\* git on PATH and a HEAD commit; a run that ends without a HEAD commit, or
\* after a failed git add, or without git, has not pushed and its exit status
\* is not zero.
C14_PushOrder ==
    /\ \A a \in At("git add -A") :
         /\ (RUN_BUILDER /\ loc.builder) => \E b \in At("python pdf_builder.py") : b < a
         /\ \A b \in At("python pdf_builder.py") : b < a
    /\ At("python pdf_builder.py") # {} => (RUN_BUILDER /\ loc.builder)
    /\ \A c \in At("git commit -m") :
         /\ \E a \in At("git add -A") : a < c /\ out[a].rc = 0
         /\ loc.dirty
         /\ LET typed == out[c].typed
                msg == out[c].msg
            IN  IF \A k \in 1..Len(typed) : typed[k] = " "
                THEN msg = Update
                ELSE \E i, j \in 1..Len(typed) :
                       /\ msg = SubSeq(typed, i, j)
                       /\ typed[i] # " " /\ typed[j] # " "
                       /\ \A k \in 1..Len(typed) : (k < i \/ k > j) => typed[k] = " "
         /\ \A p \in At("git push -u") : c < p
    /\ \A p \in At("git push -u") :
         /\ p = Len(out)
         /\ \E a \in At("git add -A") : a < p /\ out[a].rc = 0
         /\ \A a \in At("git add -A") : out[a].rc = 0
         /\ loc.dirty => At("git commit -m") # {}
         /\ loc.git /\ loc.head
         /\ pc = "exit"
    /\ ~loc.git => out = << >>
    /\ pc = "exit" =>
         /\ loc.status = 0 <=> \E p \in At("git push -u") : out[p].rc = 0
         /\ (~loc.head \/ ~loc.git \/ \E a \in At("git add -A") : out[a].rc # 0)
              => (At("git push -u") = {} /\ loc.status = 1)

\* C14 witness: a run with the builder, a blank commit message and a push
\* that succeeded: builder, add, commit "update", push, in this order.
C14_Witness ==
    /\ pc = "exit"
    /\ loc.status = 0
    /\ \E b, a, c, p \in 1..Len(out) :
         /\ b < a /\ a < c /\ c < p
         /\ out[b].cmd = "python pdf_builder.py"
         /\ out[a].cmd = "git add -A"
         /\ out[c].cmd = "git commit -m" /\ out[c].typed = << " " >> /\ out[c].msg = Update
         /\ out[p].cmd = "git push -u"

====
